---- MODULE Spec2Model ----
(***************************************************************************)
(* The Surrogate base class of baybe/surrogates/base.py: its fitted state  *)
(* (_input_transform, _output_transform, _output_scaler) and the           *)
(* operations fit, transform_inputs, transform_outputs and posterior.      *)
(*                                                                         *)
(* One surrogate instance is modelled.  Its class (the ClassVar flags, the *)
(* class name, the _make_target_scaler override) is fixed at construction. *)
(* Every public call is one action; the variable last records what the     *)
(* caller of that call observed (the exception raised or the value         *)
(* returned), its arguments (of a fit call that raised, the search space   *)
(* only) and the primitives it invoked on the way.                         *)
(***************************************************************************)
EXTENDS Integers, Sequences, FiniteSets, TLC

\* ------------------------------------------------------------------ bounds
MaxTasks == 2   \* searchspace.n_tasks ranges over 0..MaxTasks
MinLo    == 1   \* the parameter x has the comp-rep bounds [MinLo, MaxHi]
MaxHi    == 3
MaxX     == 3   \* parameter values of a dataframe range over 0..MaxX
MaxVal   == 1   \* target values and estimated moments range over 0..MaxVal
MaxRows  == 2   \* a measurement batch has 1..MaxRows rows
MaxCandidates == 2   \* _estimate_moments is asked about 1..MaxCandidates points
MaxBytes == 2   \* an onnx_str payload has 0..MaxBytes bytes
MaxCycles == 3  \* the fit+posterior cycle is repeated up to MaxCycles times

\* --------------------------------------------------------------- constants
None == [kind |-> "None"]
IDENTITY_TRANSFORM == [kind |-> "IDENTITY_TRANSFORM"]

\* ------------------------------------------------------------------ inputs
\* A concrete Surrogate subclass: its two ClassVar flags, whether its class
\* name contains "GaussianProcess", and whether its _make_target_scaler
\* returns a scaler (the base implementation) or None (an override).
SurrogateClasses ==
    [supports_transfer_learning : BOOLEAN,
     isGaussianProcess : BOOLEAN,
     has_target_scaler : BOOLEAN]

\* What fit reads of a search space: n_tasks and continuous.is_empty; its
\* comp_rep_bounds are those of the one parameter x.
SearchSpaces == [n_tasks : 0..MaxTasks, continuous_is_empty : BOOLEAN]

comp_rep_bounds(searchspace) == [lo |-> MinLo, hi |-> MaxHi]

Objectives == {"MAX", "MIN"}

\* Target column of a measurement dataframe, one value per row.
TargetFrames == UNION {[1..n -> 0..MaxVal] : n \in 1..MaxRows}

\* Parameter column of a one-row experimental dataframe.
ParameterFrames == 0..MaxX

\* Mean returned by the subclass primitive _posterior, in scaled units.
PosteriorMeans == 0..MaxVal

\* Where a call into a collaborator raises during fit, if anywhere.
FailAt == {"none", "objective.transform", "searchspace.transform", "_fit"}

\* ----------------------------------------------------------------- helpers
RECURSIVE Sum(_)
Sum(s) == IF s = <<>> THEN 0 ELSE Head(s) + Sum(Tail(s))

RECURSIVE Gcd(_, _)
Gcd(a, b) == IF b = 0 THEN a ELSE Gcd(b, a % b)

Abs(a) == IF a < 0 THEN -a ELSE a

\* The rational num/den (den > 0) in lowest terms.
Ratio(num, den) ==
    LET g == Gcd(Abs(num), den)
    IN  [num |-> num \div g, den |-> den \div g]

\* objective.transform(df): the target column in computational
\* representation; minimisation targets are negated.
objective_transform(objective, ys) ==
    [i \in DOMAIN ys |-> IF objective = "MIN" THEN -ys[i] ELSE ys[i]]

\* Standardize(1) after one training-mode forward pass over Y and eval():
\* the statistics it keeps, exactly: the sufficient statistics n, sum and
\* sumsq, means = sum/n and the square of stdvs,
\* (n*sumsq - sum^2) / (n*(n-1)).  The deviation of a single row and a
\* deviation below the minimum (a constant column) are replaced by 1.
Standardize(Y) ==
    LET n     == Len(Y)
        sum   == Sum(Y)
        sumsq == Sum([i \in DOMAIN Y |-> Y[i] * Y[i]])
        devsq == n * sumsq - sum * sum
    IN  [kind  |-> "Standardize",
         n     |-> n,
         sum   |-> sum,
         sumsq |-> sumsq,
         means |-> Ratio(sum, n),
         stdvs_sq |-> IF n = 1 \/ devsq = 0
                      THEN Ratio(1, 1)
                      ELSE Ratio(devsq, n * (n - 1))]

\* output_scaler(t)[0] in eval mode for one value: (y - means) / stdvs, kept
\* exact as the rational y - means together with the square of the divisor.
StandardizeForward(scaler, y) ==
    [centred  |-> Ratio(y * scaler.means.den - scaler.means.num,
                        scaler.means.den),
     stdvs_sq |-> scaler.stdvs_sq]

\* Standardize.untransform for one scaled value z: z * stdvs + means.  The
\* product is rational when z was divided by the same stdvs; otherwise the
\* ratio of the two deviations is kept with it.
StandardizeUntransform(scaler, z) ==
    IF z.stdvs_sq = scaler.stdvs_sq
    THEN Ratio(z.centred.num * scaler.means.den
                 + scaler.means.num * z.centred.den,
               z.centred.den * scaler.means.den)
    ELSE [centred |-> z.centred, stdvs_sq |-> z.stdvs_sq,
          times_sq |-> scaler.stdvs_sq, plus |-> scaler.means]

\* MinMaxScaler after fit on a bounds table with the rows lo and hi.
MinMaxScaler(bounds) ==
    [kind |-> "MinMaxScaler", data_min |-> bounds.lo, data_max |-> bounds.hi]

\* Variant: the value is divided by the range without subtracting data_min.
MinMaxTransform_noShift(scaler, x) ==
    Ratio(x, scaler.data_max - scaler.data_min)

\* MinMaxScaler.transform for one value: (x - data_min) / (data_max - data_min).
MinMaxTransform(scaler, x) ==
    Ratio(x - scaler.data_min, scaler.data_max - scaler.data_min)

\* ----------------------------------------------------------------- scalers
_make_input_scaler(searchspace) == MinMaxScaler(comp_rep_bounds(searchspace))

_make_target_scaler(class) == class.has_target_scaler

\* Variant: without a target scaler the absent scaler itself is returned.
_make_output_scaler_absent(class, objective, measurements) ==
    IF ~_make_target_scaler(class)
    THEN None
    ELSE Standardize(objective_transform(objective, measurements))

_make_output_scaler(class, objective, measurements) ==
    IF ~_make_target_scaler(class)
    THEN IDENTITY_TRANSFORM
    ELSE Standardize(objective_transform(objective, measurements))

\* ---------------------------------------------------------------- closures
\* The closure fit.transform_inputs: it captures searchspace and input_scaler.
MakeInputTransform(searchspace, input_scaler) ==
    [kind |-> "transform_inputs",
     searchspace |-> searchspace,
     input_scaler |-> input_scaler]

\* The closure fit.transform_outputs: it captures objective and output_scaler.
MakeOutputTransform(objective, output_scaler) ==
    [kind |-> "transform_outputs",
     objective |-> objective,
     output_scaler |-> output_scaler]

\* A pandas dataframe / tensor of computational values, as returned.
DataFrame(values) == [kind |-> "DataFrame", values |-> values]

\* Calling the stored input closure on a one-row parameter frame.
ApplyInputTransform(closure, x) ==
    DataFrame(<<MinMaxTransform(closure.input_scaler, x)>>)

\* Variant: the scaler is still in training mode and standardizes every
\* frame by the frame's own statistics.
ApplyOutputTransform_training(closure, ys) ==
    LET dft == objective_transform(closure.objective, ys)
    IN  IF closure.output_scaler = IDENTITY_TRANSFORM
        THEN DataFrame([i \in DOMAIN dft |-> Ratio(dft[i], 1)])
        ELSE DataFrame([i \in DOMAIN dft |->
                            StandardizeForward(Standardize(dft), dft[i])])

\* Calling the stored output closure on a target frame.
ApplyOutputTransform(closure, ys) ==
    LET dft == objective_transform(closure.objective, ys)
    IN  IF closure.output_scaler = IDENTITY_TRANSFORM
        THEN DataFrame([i \in DOMAIN dft |-> Ratio(dft[i], 1)])
        ELSE DataFrame([i \in DOMAIN dft |->
                            StandardizeForward(closure.output_scaler, dft[i])])

\* ------------------------------------------- columns of the input closure
\* Parameters of a search space: the name is the experimental column, the
\* comp_rep_columns are the computational columns the parameter is encoded to.
NumericalParameter ==
    [name |-> "p1", comp_rep_columns |-> <<"p1">>]

CategoricalParameter ==
    [name |-> "p2", comp_rep_columns |-> <<"p2_a", "p2_b">>]

\* searchspace.parameters of the search spaces considered.
ParameterLists ==
    {<<NumericalParameter>>,
     <<NumericalParameter, CategoricalParameter>>,
     <<CategoricalParameter, NumericalParameter>>}

\* Column names a dataframe may carry: parameter names and an unknown one.
ColumnNames == {"p1", "p2", "u"}

ColumnSet(cols) == {cols[i] : i \in DOMAIN cols}

\* df.columns: the sequences of distinct column names.
ColumnLists ==
    {cols \in UNION {[1..n -> ColumnNames] : n \in 0..Cardinality(ColumnNames)} :
        Cardinality(ColumnSet(cols)) = Len(cols)}

\* df.index: the row labels of a dataframe with at least one row.
RowIndexes == {<<0>>, <<7, 3>>}

\* A dataframe: row labels, ordered columns, and for every column whether its
\* cells hold values or NaN.
Frame(index, columns, cells) ==
    [index |-> index, columns |-> columns, cells |-> cells]

CompRepColumns(parameters) ==
    UNION {ColumnSet(parameters[i].comp_rep_columns) : i \in DOMAIN parameters}

\* input_scaler.get_feature_names_out(): the columns the fitted column
\* transformer produces, some of the computational columns of the space.
FeatureNamesOut(parameters) == SUBSET CompRepColumns(parameters)

\* next(p for p in searchspace.parameters if p.name == col)
ParameterNamed(parameters, col) ==
    parameters[CHOOSE i \in DOMAIN parameters :
                  /\ parameters[i].name = col
                  /\ \A j \in 1..(i - 1) : parameters[j].name # col]

\* The loop collecting comp_rep_cols over the columns of df that are
\* parameter names.
RECURSIVE CollectCompRepCols(_, _, _)
CollectCompRepCols(parameters, exp_rep_cols, columns) ==
    IF columns = <<>>
    THEN <<>>
    ELSE LET col  == Head(columns)
             rest == CollectCompRepCols(parameters, exp_rep_cols, Tail(columns))
         IN  IF col \in ColumnSet(exp_rep_cols)
             THEN ParameterNamed(parameters, col).comp_rep_columns \o rest
             ELSE rest

\* df.reindex(columns=exp_rep_cols): exactly the given columns, NaN where df
\* has no such column.
reindex(df, columns) ==
    Frame(df.index, columns,
          [c \in ColumnSet(columns) |->
              IF c \in ColumnSet(df.columns) THEN df.cells[c] ELSE "NaN"])

\* searchspace.transform(df_augmented, allow_extra=True): every parameter
\* column is encoded to its computational columns; NaN stays NaN.
searchspace_transform(parameters, df) ==
    LET comp == CompRepColumns(parameters)
        owner(c) == CHOOSE i \in DOMAIN parameters :
                        c \in ColumnSet(parameters[i].comp_rep_columns)
    IN  [index |-> df.index, columns |-> comp,
         cells |-> [c \in comp |->
                      IF df.cells[parameters[owner(c)].name] = "NaN"
                      THEN "NaN" ELSE "encoded"]]

\* pd.DataFrame(input_scaler.transform(...), index=df.index,
\* columns=input_scaler.get_feature_names_out())
scaled_frame(feature_names_out, comp, index) ==
    [index |-> index, columns |-> feature_names_out,
     cells |-> [c \in feature_names_out |->
                  IF comp.cells[c] = "NaN" THEN "NaN" ELSE "scaled"]]

\* Variant: the augmented, scaled frame is returned without the subselection.
closure_transform_inputs_whole(parameters, feature_names_out, df) ==
    LET exp_rep_cols == [i \in DOMAIN parameters |-> parameters[i].name]
    IN  scaled_frame(feature_names_out,
                     searchspace_transform(parameters,
                                           reindex(df, exp_rep_cols)),
                     df.index)

\* The closure fit.transform_inputs on a dataframe, column by column.
closure_transform_inputs(parameters, feature_names_out, df) ==
    LET exp_rep_cols  == [i \in DOMAIN parameters |-> parameters[i].name]
        comp_rep_cols == CollectCompRepCols(parameters, exp_rep_cols,
                                            df.columns)
        df_augmented  == reindex(df, exp_rep_cols)
        out  == scaled_frame(feature_names_out,
                             searchspace_transform(parameters, df_augmented),
                             df.index)
        kept == ColumnSet(comp_rep_cols) \cap out.columns
    IN  [index |-> out.index, columns |-> kept,
         cells |-> [c \in kept |-> out.cells[c]]]

\* -------------------------------------------------------------- operations
\* Each operation is a function of the instance (self: the three fitted
\* fields) and its arguments; it yields the instance afterwards, the
\* exception raised ("none" when the call returns), the value returned and
\* the primitives invoked, in order.
Outcome(self, error, value, calls) ==
    [self |-> self, error |-> error, value |-> value, calls |-> calls]

\* Variant: the stored closure is called without the None guard.
transform_inputs_unguarded(self, df) ==
    IF self.input_transform = None
    THEN Outcome(self, "TypeError", None, <<>>)
    ELSE Outcome(self, "none", ApplyInputTransform(self.input_transform, df),
                 <<"_input_transform">>)

transform_inputs(self, df) ==
    IF self.input_transform = None
    THEN Outcome(self, "ModelNotTrainedError", None, <<>>)
    ELSE Outcome(self, "none", ApplyInputTransform(self.input_transform, df),
                 <<"_input_transform">>)

\* Variant: the stored closure is called without the None guard.
transform_outputs_unguarded(self, df) ==
    IF self.output_transform = None
    THEN Outcome(self, "TypeError", None, <<>>)
    ELSE Outcome(self, "none", ApplyOutputTransform(self.output_transform, df),
                 <<"_output_transform">>)

\* Variant: the scaler is still in training mode, so a call refits it on the
\* frame it is given.
transform_outputs_refit(self, df) ==
    IF self.output_transform = None
    THEN Outcome(self, "ModelNotTrainedError", None, <<>>)
    ELSE IF self.output_scaler \in {None, IDENTITY_TRANSFORM}
    THEN Outcome(self, "none", ApplyOutputTransform(self.output_transform, df),
                 <<"_output_transform">>)
    ELSE LET scaler ==
               Standardize(objective_transform(self.output_transform.objective,
                                               df))
         IN  Outcome([self EXCEPT !.output_scaler = scaler], "none",
                     ApplyOutputTransform(self.output_transform, df),
                     <<"_output_transform">>)

transform_outputs(self, df) ==
    IF self.output_transform = None
    THEN Outcome(self, "ModelNotTrainedError", None, <<>>)
    ELSE Outcome(self, "none", ApplyOutputTransform(self.output_transform, df),
                 <<"_output_transform">>)

\* The subclass primitive _posterior on the transformed candidates; mean is
\* the mean it estimates, in the units of the training targets.
PrimitivePosterior(candidates, mean) ==
    [kind |-> "Posterior", at |-> candidates, mean |-> mean,
     untransformed_by |-> None]

\* Standardize.untransform_posterior: the same posterior mapped back by the
\* scaler's statistics (mean * stdvs + means).
untransform_posterior(scaler, p) == [p EXCEPT !.untransformed_by = scaler]

\* Variant: the posterior of the primitive is returned without descaling.
posterior_scaled(self, candidates, mean) ==
    LET t == transform_inputs(self, candidates)
    IN  IF t.error # "none"
        THEN Outcome(self, t.error, None, <<"transform_inputs">>)
        ELSE Outcome(self, "none", PrimitivePosterior(t.value, mean),
                     <<"transform_inputs", "_posterior">>)

posterior(self, candidates, mean) ==
    LET t == transform_inputs(self, candidates)
    IN  IF t.error # "none"
        THEN Outcome(self, t.error, None, <<"transform_inputs">>)
        ELSE LET p == PrimitivePosterior(t.value, mean)
             IN  IF self.output_scaler # IDENTITY_TRANSFORM
                 THEN IF self.output_scaler = None
                      THEN Outcome(self, "AttributeError", None,
                                   <<"transform_inputs", "_posterior">>)
                      ELSE Outcome(self, "none",
                                   untransform_posterior(self.output_scaler, p),
                                   <<"transform_inputs", "_posterior",
                                     "untransform_posterior">>)
                 ELSE Outcome(self, "none", p,
                              <<"transform_inputs", "_posterior">>)

\* Variant: the continuous check tests is_empty instead of its negation.
fit_preconditions_emptyContinuous(class, searchspace) ==
    IF searchspace.n_tasks > 1 /\ ~class.supports_transfer_learning
    THEN "ValueError"
    ELSE IF searchspace.continuous_is_empty /\ ~class.isGaussianProcess
         THEN "NotImplementedError"
         ELSE "none"

\* Variant: the capability check fires for any task parameter (n_tasks >= 1).
fit_preconditions_anyTask(class, searchspace) ==
    IF searchspace.n_tasks >= 1 /\ ~class.supports_transfer_learning
    THEN "ValueError"
    ELSE IF ~searchspace.continuous_is_empty /\ ~class.isGaussianProcess
         THEN "NotImplementedError"
         ELSE "none"

\* The two checks at the head of fit: the exception they raise, or "none".
fit_preconditions(class, searchspace) ==
    IF searchspace.n_tasks > 1 /\ ~class.supports_transfer_learning
    THEN "ValueError"
    ELSE IF ~searchspace.continuous_is_empty /\ ~class.isGaussianProcess
         THEN "NotImplementedError"
         ELSE "none"

\* Variant: the statistics of an output scaler that is already set are
\* pooled with those of the new one.
fit_store_pooled(self, searchspace, objective, input_scaler, output_scaler) ==
    LET old    == self.output_scaler
        pooled ==
            IF old \in {None, IDENTITY_TRANSFORM}
               \/ output_scaler = IDENTITY_TRANSFORM
            THEN output_scaler
            ELSE LET n     == old.n + output_scaler.n
                     sum   == old.sum + output_scaler.sum
                     sumsq == old.sumsq + output_scaler.sumsq
                     devsq == n * sumsq - sum * sum
                 IN  [kind  |-> "Standardize", n |-> n, sum |-> sum,
                      sumsq |-> sumsq, means |-> Ratio(sum, n),
                      stdvs_sq |-> IF devsq = 0 THEN Ratio(1, 1)
                                   ELSE Ratio(devsq, n * (n - 1))]
    IN  [input_transform  |-> MakeInputTransform(searchspace, input_scaler),
         output_transform |-> MakeOutputTransform(objective, pooled),
         output_scaler    |-> pooled]

\* Variant: an output scaler that is already set is kept.
fit_store_keepScaler(self, searchspace, objective, input_scaler, output_scaler) ==
    [input_transform  |-> MakeInputTransform(searchspace, input_scaler),
     output_transform |-> MakeOutputTransform(objective, output_scaler),
     output_scaler    |-> IF self.output_scaler = None
                          THEN output_scaler
                          ELSE self.output_scaler]

\* The instance after the three assignments "Store context-specific
\* transformations".
fit_store(self, searchspace, objective, input_scaler, output_scaler) ==
    [input_transform  |-> MakeInputTransform(searchspace, input_scaler),
     output_transform |-> MakeOutputTransform(objective, output_scaler),
     output_scaler    |-> output_scaler]

\* Variant: the input scaler is fitted on the measurements, not the bounds.
fit_body_scalerOnData(class, self, searchspace, objective, measurements, failAt) ==
    IF _make_target_scaler(class) /\ failAt = "objective.transform"
    THEN Outcome(self, "Exception", None,
                 <<"_make_input_scaler", "_make_output_scaler">>)
    ELSE
    LET input_scaler  == MinMaxScaler([lo |-> 0, hi |-> 1 + Len(measurements)])
        output_scaler == _make_output_scaler(class, objective, measurements)
        stored == fit_store(self, searchspace, objective,
                            input_scaler, output_scaler)
        calls  == <<"_make_input_scaler", "_make_output_scaler",
                    "store _input_transform", "store _output_transform",
                    "store _output_scaler",
                    "transform_inputs", "transform_outputs",
                    "_get_model_context", "_fit">>
    IN  IF failAt = "none"
        THEN Outcome(stored, "none", None, calls)
        ELSE Outcome(stored, "Exception", None, calls)

\* The default _get_model_context: no context is created.
_get_model_context(searchspace, objective) == None

\* What the subclass primitive is handed at self._fit(train_x, train_y,
\* context): the measurements through the stored output transform, and the
\* context.
fit_primitive_args(self, searchspace, objective, measurements) ==
    [train_y |-> ApplyOutputTransform(self.output_transform, measurements),
     context |-> _get_model_context(searchspace, objective)]

\* The steps of fit behind the checks, as they appear in the call trace.
FitMade == <<"_make_input_scaler", "_make_output_scaler">>

FitStored ==
    <<"store _input_transform", "store _output_transform",
      "store _output_scaler">>

\* Variant: the output scaler is stored only after the subclass primitive
\* has returned.
fit_body_scalerAfterFit(class, self, searchspace, objective, measurements, failAt) ==
    IF _make_target_scaler(class) /\ failAt = "objective.transform"
    THEN Outcome(self, "Exception", None, FitMade)
    ELSE
    LET input_scaler  == _make_input_scaler(searchspace)
        output_scaler == _make_output_scaler(class, objective, measurements)
        stored == fit_store(self, searchspace, objective,
                            input_scaler, output_scaler)
        partly == [stored EXCEPT !.output_scaler = self.output_scaler]
        made   == FitMade \o FitStored
    IN
    IF failAt = "searchspace.transform"
    THEN Outcome(partly, "Exception", None, made \o <<"transform_inputs">>)
    ELSE IF failAt = "objective.transform"
    THEN Outcome(partly, "Exception", None,
                 made \o <<"transform_inputs", "transform_outputs">>)
    ELSE IF failAt = "_fit"
    THEN Outcome(partly, "Exception", None,
                 made \o <<"transform_inputs", "transform_outputs",
                           "_get_model_context", "_fit">>)
    ELSE Outcome(stored, "none", None,
                 made \o <<"transform_inputs", "transform_outputs",
                           "_get_model_context", "_fit">>)

\* Variant: a failing subclass primitive is invoked a second time, and the
\* second attempt succeeds.
fit_body_retry(class, self, searchspace, objective, measurements, failAt) ==
    IF _make_target_scaler(class) /\ failAt = "objective.transform"
    THEN Outcome(self, "Exception", None, FitMade)
    ELSE
    LET input_scaler  == _make_input_scaler(searchspace)
        output_scaler == _make_output_scaler(class, objective, measurements)
        stored == fit_store(self, searchspace, objective,
                            input_scaler, output_scaler)
        made   == FitMade \o FitStored
    IN
    IF failAt = "searchspace.transform"
    THEN Outcome(stored, "Exception", None, made \o <<"transform_inputs">>)
    ELSE IF failAt = "objective.transform"
    THEN Outcome(stored, "Exception", None,
                 made \o <<"transform_inputs", "transform_outputs">>)
    ELSE IF failAt = "_fit"
    THEN Outcome(stored, "none", None,
                 made \o <<"transform_inputs", "transform_outputs",
                           "_get_model_context", "_fit",
                           "_get_model_context", "_fit">>)
    ELSE Outcome(stored, "none", None,
                 made \o <<"transform_inputs", "transform_outputs",
                           "_get_model_context", "_fit">>)

\* fit from "Create scaler objects" to its end: the part behind the checks.
fit_body(class, self, searchspace, objective, measurements, failAt) ==
    IF _make_target_scaler(class) /\ failAt = "objective.transform"
    THEN \* objective.transform(measurements) raises inside _make_output_scaler
         Outcome(self, "Exception", None, FitMade)
    ELSE
    LET input_scaler  == _make_input_scaler(searchspace)
        output_scaler == _make_output_scaler(class, objective, measurements)
        stored == fit_store(self, searchspace, objective,
                            input_scaler, output_scaler)
        made   == FitMade \o FitStored
    IN
    IF failAt = "searchspace.transform"
    THEN \* self.transform_inputs(measurements) raises
         Outcome(stored, "Exception", None, made \o <<"transform_inputs">>)
    ELSE IF failAt = "objective.transform"
    THEN \* self.transform_outputs(measurements) raises
         Outcome(stored, "Exception", None,
                 made \o <<"transform_inputs", "transform_outputs">>)
    ELSE IF failAt = "_fit"
    THEN \* the subclass primitive raises
         Outcome(stored, "Exception", None,
                 made \o <<"transform_inputs", "transform_outputs",
                           "_get_model_context", "_fit">>)
    ELSE Outcome(stored, "none", None,
                 made \o <<"transform_inputs", "transform_outputs",
                           "_get_model_context", "_fit">>)

\* Variant: a failure behind the checks clears the fitted fields.
fit_clearOnFailure(class, self, searchspace, objective, measurements, failAt) ==
    LET check == fit_preconditions(class, searchspace)
        body  == fit_body(class, self, searchspace, objective, measurements,
                          failAt)
    IN  IF check # "none"
        THEN Outcome(self, check, None, <<>>)
        ELSE IF body.error # "none"
             THEN Outcome([input_transform |-> None, output_transform |-> None,
                           output_scaler |-> None],
                          body.error, None, body.calls)
             ELSE body

\* Variant: the scalers are built and stored before the checks run.
fit_storeBeforeChecks(class, self, searchspace, objective, measurements, failAt) ==
    LET check == fit_preconditions(class, searchspace)
        body  == fit_body(class, self, searchspace, objective, measurements,
                          failAt)
    IN  IF check # "none"
        THEN Outcome(body.self, check, None, <<>>)
        ELSE body

fit(class, self, searchspace, objective, measurements, failAt) ==
    LET check == fit_preconditions(class, searchspace)
    IN  IF check # "none"
        THEN Outcome(self, check, None, <<>>)
        ELSE fit_body(class, self, searchspace, objective, measurements, failAt)

\* ------------------------------------------------------- interleaved calls
\* The callers that may be inside a method of the one instance at a time.
ConcThreads == {"t1", "t2", "t3"}

ReadOps == {"posterior", "transform_inputs", "transform_outputs"}

\* The fit calls of the interleaved runs: two calls that differ in search
\* space, objective and measurements.
ConcFitArgs ==
    {[searchspace  |-> [n_tasks |-> 1, continuous_is_empty |-> TRUE],
      objective    |-> "MAX",
      measurements |-> <<0, 1>>],
     [searchspace  |-> [n_tasks |-> 2, continuous_is_empty |-> FALSE],
      objective    |-> "MIN",
      measurements |-> <<1>>]}

\* The reading calls of the interleaved runs: each takes from the record the
\* arguments of its signature.
ConcReadCalls ==
    {[op |-> op, candidates |-> MinLo + 1, mean |-> 1, targets |-> <<0, 1>>] :
       op \in ReadOps}

\* What fit has built when it reaches "Store context-specific
\* transformations": the two closures and the output scaler.
fit_built(class, self, a) ==
    fit_store(self, a.searchspace, a.objective,
              _make_input_scaler(a.searchspace),
              _make_output_scaler(class, a.objective, a.measurements))

\* Variant: the three fields are swapped in by one assignment.
fit_store_step_atomic(self, built, step) ==
    IF step = "store_input" THEN built ELSE self

\* The instance after one of the three assignments of fit, each of which is
\* a store of its own.
fit_store_step(self, built, step) ==
    IF step = "store_input"
    THEN [self EXCEPT !.input_transform = built.input_transform]
    ELSE IF step = "store_output"
    THEN [self EXCEPT !.output_transform = built.output_transform]
    ELSE [self EXCEPT !.output_scaler = built.output_scaler]

NextStoreStep(step) ==
    IF step = "store_input" THEN "store_output"
    ELSE IF step = "store_output" THEN "store_scaler"
    ELSE "train"

\* ------------------------------------------------------ GaussianSurrogate
\* A 1-D tensor of n entries and a 2-D tensor of n x n entries.
Tensor1(n, at) == [dims |-> 1, n |-> n, at |-> at]

Tensor2(n, at) == [dims |-> 2, n |-> n, at |-> at]

\* torch.diag_embed of a 1-D tensor: the square matrix with the tensor on
\* its diagonal and zeros elsewhere.
diag_embed(var) ==
    Tensor2(var.n,
            [ij \in (1..var.n) \X (1..var.n) |->
                 IF ij[1] = ij[2] THEN var.at[ij[1]] ELSE 0])

\* What _estimate_moments may return for a class with the given flag: a mean
\* per candidate and marginal variances (1-D) or a full covariance (2-D).
EstimatedMoments(joint_posterior) ==
    UNION {[mean : {Tensor1(n, m) : m \in [1..n -> 0..MaxVal]},
            var  : IF joint_posterior
                   THEN {Tensor2(n, c) :
                           c \in [(1..n) \X (1..n) -> 0..MaxVal]}
                   ELSE {Tensor1(n, v) : v \in [1..n -> 0..MaxVal]}]
           : n \in 1..MaxCandidates}

\* MultivariateNormal(mean, var) wrapped into a GPyTorchPosterior.
GPyTorchPosterior(mean, var) ==
    [kind |-> "GPyTorchPosterior", mean |-> mean, covariance_matrix |-> var]

\* Variant: the variances are handed on as they come.
GaussianSurrogate_posterior_raw(joint_posterior, moments) ==
    GPyTorchPosterior(moments.mean, moments.var)

\* GaussianSurrogate._posterior, given the moments _estimate_moments returns.
GaussianSurrogate_posterior(joint_posterior, moments) ==
    LET var == IF ~joint_posterior
               THEN diag_embed(moments.var)
               ELSE moments.var
    IN  GPyTorchPosterior(moments.mean, var)

\* ----------------------------------------------------------- serialization
\* Byte values an onnx_str payload is drawn from: both ends of the range and
\* both sides of the ASCII limit.
ByteValues == {0, 127, 128, 255}

\* A bytes object and a str object; a str is its sequence of code points.
Bytes(data) == [type |-> "bytes", data |-> data]

Text(data) == [type |-> "str", data |-> data]

OnnxPayloads == {Bytes(b) : b \in UNION {[1..n -> ByteValues] : n \in 0..MaxBytes}}

\* bytes.decode(_ONNX_ENCODING): latin-1 turns every byte into the character
\* with that code point.
latin1_decode(b) == Text([i \in DOMAIN b.data |-> b.data[i]])

\* str.encode(_ONNX_ENCODING): every character up to code point 255 becomes
\* one byte; the result is None when some character has no latin-1 byte.
latin1_encode(t) ==
    IF \A i \in DOMAIN t.data : t.data[i] <= 255
    THEN Bytes([i \in DOMAIN t.data |-> t.data[i]])
    ELSE None

\* Python truthiness of a dict value: a str or bytes is true when non-empty.
Truthy(v) == v # None /\ Len(v.data) > 0

LiveModel == [kind |-> "Model"]

\* Surrogate instances as the hooks see them: the class name, the _model
\* attribute (None until fitted) and, for the ONNX class, the onnx_str bytes.
SurrogateObjects ==
    [class_name : {"CustomArchitectureSurrogate", "GaussianProcessSurrogate"},
     model : {None, LiveModel}]
    \cup [class_name : {"CustomONNXSurrogate"},
          model : {None, LiveModel},
          onnx_str : OnnxPayloads]

\* The attrs fields of an instance as dict keys.
FieldKeys(obj) ==
    {"_model"} \cup (IF "onnx_str" \in DOMAIN obj THEN {"onnx_str"} ELSE {})

FieldValue(obj, key) ==
    IF key = "_model" THEN obj.model
    ELSE IF key = "onnx_str" THEN obj.onnx_str
    ELSE [type |-> "name", data |-> obj.class_name]

\* unstructure_base(obj, overrides): the dict of the type tag and of every
\* field that the overrides do not omit; bytes values stay bytes.
unstructure_base(obj, omit) ==
    [key \in {"type"} \cup (FieldKeys(obj) \ omit) |-> FieldValue(obj, key)]

\* What a hook gives its caller: the exception raised ("none" when it
\* returns), the value returned and the steps taken, in order.
HookOutcome(error, value, calls) ==
    [error |-> error, value |-> value, calls |-> calls]

\* Variant: the base hook without the override for _model.
base_unstructure_hook_keepModel(obj) ==
    HookOutcome("none", unstructure_base(obj, {}), <<"unstructure_base">>)

\* The innermost unstructure hook: lambda x: unstructure_base(x, overrides=
\* {"_model": override(omit=True)}).
base_unstructure_hook(obj) ==
    HookOutcome("none", unstructure_base(obj, {"_model"}), <<"unstructure_base">>)

\* Variant: the raw hook runs first and the class is tested afterwards.
block_serialize_custom_architecture_late(obj) ==
    LET r == base_unstructure_hook(obj)
    IN  IF obj.class_name = "CustomArchitectureSurrogate"
        THEN HookOutcome("NotImplementedError", None, r.calls \o <<"block">>)
        ELSE HookOutcome(r.error, r.value, r.calls \o <<"block">>)

\* _block_serialize_custom_architecture(...).wrapper around the base hook.
block_serialize_custom_architecture(obj) ==
    IF obj.class_name = "CustomArchitectureSurrogate"
    THEN HookOutcome("NotImplementedError", None, <<"block">>)
    ELSE LET r == base_unstructure_hook(obj)
         IN  HookOutcome(r.error, r.value, <<"block">> \o r.calls)

\* _make_hook_decode_onnx_str(...).wrapper around the blocking hook: the
\* registered unstructure hook of Surrogate.
hook_decode_onnx_str(obj) ==
    LET r == block_serialize_custom_architecture(obj)
    IN  IF r.error # "none"
        THEN r
        ELSE IF "onnx_str" \in DOMAIN r.value
             THEN HookOutcome("none",
                              [r.value EXCEPT
                                 !.onnx_str = latin1_decode(r.value.onnx_str)],
                              r.calls \o <<"decode">>)
             ELSE r

\* The hook get_base_structure_hook(Surrogate) returns: the instance of the
\* class the type tag names, with the fields the dict gives and _model at
\* its default.  An onnx_str that is not bytes is refused when strict.
base_structure_hook(dct, strict) ==
    IF "onnx_str" \in DOMAIN dct
    THEN IF dct.onnx_str.type = "bytes"
         THEN HookOutcome("none",
                          [class_name |-> dct.type.data, model |-> None,
                           onnx_str |-> dct.onnx_str],
                          <<"structure_base">>)
         ELSE IF strict
              THEN HookOutcome("TypeError", None, <<"structure_base">>)
              ELSE HookOutcome("none",
                               [class_name |-> dct.type.data, model |-> None,
                                onnx_str |-> dct.onnx_str],
                               <<"structure_base">>)
    ELSE HookOutcome("none",
                     [class_name |-> dct.type.data, model |-> None],
                     <<"structure_base">>)

\* _make_hook_encode_onnx_str(...).wrapper around the base structure hook:
\* the registered structure hook of Surrogate.
hook_encode_onnx_str(dct, strict) ==
    LET onnx_str == IF "onnx_str" \in DOMAIN dct THEN dct.onnx_str ELSE None
    IN  IF Truthy(onnx_str) /\ onnx_str.type = "str"
        THEN IF latin1_encode(onnx_str) = None
             THEN HookOutcome("UnicodeEncodeError", None, <<"encode">>)
             ELSE LET r == base_structure_hook(
                               [dct EXCEPT !.onnx_str = latin1_encode(onnx_str)],
                               strict)
                  IN  HookOutcome(r.error, r.value, <<"encode">> \o r.calls)
        ELSE base_structure_hook(dct, strict)

\* ------------------------------------------------------------------- state
VARIABLES
    class,             \* the concrete subclass of the instance
    input_transform,   \* Surrogate._input_transform
    output_transform,  \* Surrogate._output_transform
    output_scaler,     \* Surrogate._output_scaler
    fit_invoked,       \* history: fit has been called on the instance
    trained,           \* history: some fit call has returned normally
    last,              \* the most recent call as its caller saw it
    gauss,             \* a GaussianSurrogate._posterior evaluation
    ser,               \* an instance on its way through the converter hooks
    threads,           \* the callers inside a method, in the interleaved runs
    cycles,            \* the repeated fit+posterior cycles and their results
    frames             \* a dataframe on its way through the input closure

vars == <<class, input_transform, output_transform, output_scaler,
          fit_invoked, trained, last, gauss, ser, threads, cycles,
          frames>>

\* The part of the state outside the Surrogate instance and its calls.
others == <<gauss, ser, threads, cycles, frames>>

\* The instance and its call history.
instance == <<class, input_transform, output_transform, output_scaler,
              fit_invoked, trained, last>>

Idle == [pc |-> "idle"]

fields == <<input_transform, output_transform, output_scaler>>

Self ==
    [input_transform  |-> input_transform,
     output_transform |-> output_transform,
     output_scaler    |-> output_scaler]

NoCall == [op |-> "__init__", args |-> None, trained_before |-> FALSE,
           error |-> "none", value |-> None, calls |-> <<>>]

Init ==
    /\ class \in SurrogateClasses
    /\ input_transform = None
    /\ output_transform = None
    /\ output_scaler = None
    /\ fit_invoked = FALSE
    /\ trained = FALSE
    /\ last = NoCall
    /\ gauss = Idle
    /\ ser = Idle
    /\ threads = Idle
    /\ cycles = Idle
    /\ frames = Idle

\* The effect of a call with outcome r on the instance and on last.
Call(op, args, r) ==
    /\ input_transform' = r.self.input_transform
    /\ output_transform' = r.self.output_transform
    /\ output_scaler' = r.self.output_scaler
    /\ last' = [op |-> op, args |-> args, trained_before |-> trained,
                error |-> r.error, value |-> r.value, calls |-> r.calls]
    /\ UNCHANGED <<class, others>>

Fit(searchspace, objective, measurements, failAt) ==
    LET r == fit(class, Self, searchspace, objective, measurements, failAt)
    IN  /\ Call("fit",
                IF r.error = "none"
                THEN [searchspace |-> searchspace, objective |-> objective,
                      measurements |-> measurements]
                ELSE [searchspace |-> searchspace],
                r)
        /\ fit_invoked' = TRUE
        /\ trained' = (trained \/ r.error = "none")

TransformInputs(df) ==
    /\ Call("transform_inputs", [df |-> df], transform_inputs(Self, df))
    /\ UNCHANGED <<fit_invoked, trained>>

TransformOutputs(df) ==
    /\ Call("transform_outputs", [df |-> df], transform_outputs(Self, df))
    /\ UNCHANGED <<fit_invoked, trained>>

Posterior(candidates, mean) ==
    /\ Call("posterior", [candidates |-> candidates, mean |-> mean],
            posterior(Self, candidates, mean))
    /\ UNCHANGED <<fit_invoked, trained>>

Next ==
    \/ \E searchspace \in SearchSpaces, objective \in Objectives,
          measurements \in TargetFrames, failAt \in FailAt :
            Fit(searchspace, objective, measurements, failAt)
    \/ \E df \in ParameterFrames : TransformInputs(df)
    \/ \E df \in TargetFrames : TransformOutputs(df)
    \/ \E candidates \in ParameterFrames, mean \in PosteriorMeans :
            Posterior(candidates, mean)

Spec == Init /\ [][Next]_vars

\* ------------------------------------------- specification: Gaussian posterior
\* One evaluation of GaussianSurrogate._posterior on an untouched instance:
\* the class flag and the estimated moments are the inputs.
Untouched ==
    /\ class = [supports_transfer_learning |-> FALSE,
                isGaussianProcess |-> FALSE, has_target_scaler |-> TRUE]
    /\ input_transform = None
    /\ output_transform = None
    /\ output_scaler = None
    /\ fit_invoked = FALSE
    /\ trained = FALSE
    /\ last = NoCall

InitGauss ==
    /\ Untouched
    /\ ser = Idle
    /\ threads = Idle
    /\ cycles = Idle
    /\ frames = Idle
    /\ \E joint_posterior \in BOOLEAN :
         \E moments \in EstimatedMoments(joint_posterior) :
            gauss = [pc |-> "called", joint_posterior |-> joint_posterior,
                     moments |-> moments, posterior |-> None]

GaussianPosterior ==
    /\ gauss.pc = "called"
    /\ gauss' = [gauss EXCEPT
                   !.pc = "returned",
                   !.posterior = GaussianSurrogate_posterior(
                                     gauss.joint_posterior, gauss.moments)]
    /\ UNCHANGED <<instance, ser, threads, cycles, frames>>

NextGauss == GaussianPosterior

SpecGauss == InitGauss /\ [][NextGauss]_vars

\* ------------------------------------------------ specification: converter
\* One instance is unstructured by the registered unstructure hook and the
\* dict it gives is structured again by the registered structure hook.
InitSer ==
    /\ Untouched
    /\ gauss = Idle
    /\ threads = Idle
    /\ cycles = Idle
    /\ frames = Idle
    /\ \E obj \in SurrogateObjects :
         ser = [pc |-> "constructed", obj |-> obj,
                unstructured |-> HookOutcome("none", None, <<>>),
                structured |-> HookOutcome("none", None, <<>>)]

Unstructure ==
    /\ ser.pc = "constructed"
    /\ ser' = [ser EXCEPT !.pc = "unstructured",
                          !.unstructured = hook_decode_onnx_str(ser.obj)]
    /\ UNCHANGED <<instance, gauss, threads, cycles, frames>>

Structure(strict) ==
    /\ ser.pc = "unstructured"
    /\ ser.unstructured.error = "none"
    /\ ser' = [ser EXCEPT
                 !.pc = "structured",
                 !.structured = hook_encode_onnx_str(ser.unstructured.value,
                                                     strict)]
    /\ UNCHANGED <<instance, gauss, threads, cycles, frames>>

NextSer ==
    \/ Unstructure
    \/ \E strict \in BOOLEAN : Structure(strict)

SpecSer == InitSer /\ [][NextSer]_vars

\* ---------------------------------------- specification: interleaved calls
\* Up to three callers are inside methods of the same instance at once, each
\* making one call.  A step is one access to a field of the instance: each of
\* the three assignments of fit, and each read of a field by the readers.
\* (transform_inputs and transform_outputs read their field twice, for the
\* None test and for the call; no assignment ever stores None, so the pair
\* behaves as the one read modelled here.)
IdleThread ==
    [pc |-> "idle", op |-> "none", args |-> None, loc |-> None,
     error |-> "none", value |-> None]

\* The instance is fresh or has been fitted by one of the fit calls before.
InitConc ==
    /\ \E has_target_scaler \in BOOLEAN :
         class = [supports_transfer_learning |-> TRUE,
                  isGaussianProcess |-> TRUE,
                  has_target_scaler |-> has_target_scaler]
    /\ \/ /\ input_transform = None
          /\ output_transform = None
          /\ output_scaler = None
          /\ fit_invoked = FALSE
          /\ trained = FALSE
       \/ \E a \in ConcFitArgs :
            LET built == fit_built(class, [input_transform |-> None,
                                           output_transform |-> None,
                                           output_scaler |-> None], a)
            IN  /\ input_transform = built.input_transform
                /\ output_transform = built.output_transform
                /\ output_scaler = built.output_scaler
                /\ fit_invoked = TRUE
                /\ trained = TRUE
    /\ last = NoCall
    /\ gauss = Idle
    /\ ser = Idle
    /\ threads = [t \in ConcThreads |-> IdleThread]
    /\ cycles = Idle
    /\ frames = Idle

SetSelf(self) ==
    /\ input_transform' = self.input_transform
    /\ output_transform' = self.output_transform
    /\ output_scaler' = self.output_scaler

Done(t, error, value) ==
    threads' = [threads EXCEPT ![t].pc = "done", ![t].error = error,
                               ![t].value = value]

ConcFrame ==
    UNCHANGED <<class, fit_invoked, trained, last, gauss, ser, cycles,
                frames>>

\* fit up to the assignments: the checks and the construction of the
\* scalers and closures touch no field of the instance.
BeginFit(t, a) ==
    /\ threads[t].pc = "idle"
    /\ LET check == fit_preconditions(class, a.searchspace)
       IN  threads' =
             [threads EXCEPT
                ![t] = IF check # "none"
                       THEN [IdleThread EXCEPT !.pc = "done", !.op = "fit",
                                               !.args = a, !.error = check]
                       ELSE [IdleThread EXCEPT
                               !.pc = "store_input", !.op = "fit", !.args = a,
                               !.loc = [built |-> fit_built(class, Self, a),
                                        before |-> Self]]]
    /\ UNCHANGED fields
    /\ ConcFrame

\* One of the assignments self._input_transform = ..., self._output_transform
\* = ..., self._output_scaler = ...
FitStore(t) ==
    /\ threads[t].pc \in {"store_input", "store_output", "store_scaler"}
    /\ SetSelf(fit_store_step(Self, threads[t].loc.built, threads[t].pc))
    /\ threads' = [threads EXCEPT ![t].pc = NextStoreStep(threads[t].pc)]
    /\ ConcFrame

\* "Transform and fit": the measurements go through the stored transforms
\* and the subclass primitive is run.
FitTrain(t) ==
    /\ threads[t].pc = "train"
    /\ Done(t, "none", None)
    /\ UNCHANGED fields
    /\ ConcFrame

BeginRead(t, call) ==
    /\ threads[t].pc = "idle"
    /\ threads' = [threads EXCEPT
                     ![t] = [IdleThread EXCEPT
                               !.pc = IF call.op = "transform_outputs"
                                      THEN "transform_outputs"
                                      ELSE "transform_inputs",
                               !.op = call.op, !.args = call]]
    /\ UNCHANGED fields
    /\ ConcFrame

\* self.transform_inputs(df), called directly or as the first step of
\* posterior, which then runs the _posterior primitive on the result.
ReadInput(t) ==
    /\ threads[t].pc = "transform_inputs"
    /\ LET r == transform_inputs(Self, threads[t].args.candidates)
       IN  /\ SetSelf(r.self)
           /\ IF r.error # "none" \/ threads[t].op = "transform_inputs"
              THEN Done(t, r.error, r.value)
              ELSE threads' =
                     [threads EXCEPT
                        ![t].pc = "check_scaler",
                        ![t].loc = PrimitivePosterior(r.value,
                                                      threads[t].args.mean)]
    /\ ConcFrame

ReadOutput(t) ==
    /\ threads[t].pc = "transform_outputs"
    /\ LET r == transform_outputs(Self, threads[t].args.targets)
       IN  /\ SetSelf(r.self)
           /\ Done(t, r.error, r.value)
    /\ ConcFrame

\* posterior: if self._output_scaler is not _IDENTITY_TRANSFORM
CheckScaler(t) ==
    /\ threads[t].pc = "check_scaler"
    /\ IF output_scaler = IDENTITY_TRANSFORM
       THEN Done(t, "none", threads[t].loc)
       ELSE threads' = [threads EXCEPT ![t].pc = "untransform"]
    /\ UNCHANGED fields
    /\ ConcFrame

\* posterior: p = self._output_scaler.untransform_posterior(p), a second
\* read of the field; None and the sentinel have no such method.
Untransform(t) ==
    /\ threads[t].pc = "untransform"
    /\ IF output_scaler \in {None, IDENTITY_TRANSFORM}
       THEN Done(t, "AttributeError", None)
       ELSE Done(t, "none", untransform_posterior(output_scaler, threads[t].loc))
    /\ UNCHANGED fields
    /\ ConcFrame

NextConc ==
    \E t \in ConcThreads :
        \/ \E a \in ConcFitArgs : BeginFit(t, a)
        \/ FitStore(t)
        \/ FitTrain(t)
        \/ \E call \in ConcReadCalls : BeginRead(t, call)
        \/ ReadInput(t)
        \/ ReadOutput(t)
        \/ CheckScaler(t)
        \/ Untransform(t)

SpecConc == InitConc /\ [][NextConc]_vars

\* ------------------------------------ specification: repeated fit cycles
\* One caller repeats the cycle fit, transform_inputs, transform_outputs,
\* posterior with the same search space, objective and measurements, on an
\* instance that is fresh or was fitted on other data before.  The subclass
\* primitive is deterministic: it returns the same mean in every cycle.
FittedBefore(a) ==
    LET built == fit_built(class, [input_transform |-> None,
                                   output_transform |-> None,
                                   output_scaler |-> None], a)
    IN  /\ input_transform = built.input_transform
        /\ output_transform = built.output_transform
        /\ output_scaler = built.output_scaler
        /\ fit_invoked = TRUE
        /\ trained = TRUE

InitRepeat ==
    /\ class \in SurrogateClasses
    /\ last = NoCall
    /\ gauss = Idle
    /\ ser = Idle
    /\ threads = Idle
    /\ frames = Idle
    /\ \E searchspace \in SearchSpaces, objective \in Objectives,
          measurements \in TargetFrames, mean \in PosteriorMeans,
          earlier \in {<<>>} \cup {<<a>> : a \in ConcFitArgs} :
         /\ IF earlier = <<>>
            THEN /\ input_transform = None
                 /\ output_transform = None
                 /\ output_scaler = None
                 /\ fit_invoked = FALSE
                 /\ trained = FALSE
            ELSE /\ fit_preconditions(class, earlier[1].searchspace) = "none"
                 /\ FittedBefore(earlier[1])
         /\ cycles =
                  [pc |-> "fit", n |-> 0, earlier |-> earlier,
                   args |-> [searchspace |-> searchspace,
                             objective |-> objective,
                             measurements |-> measurements],
                   mean |-> mean, error |-> "none",
                   now |-> None, before |-> None]

\* self.fit(searchspace, objective, measurements) of the next cycle.
RepeatFit ==
    /\ cycles.pc = "fit"
    /\ cycles.n < MaxCycles
    /\ LET a == cycles.args
           r == fit(class, Self, a.searchspace, a.objective, a.measurements,
                    "none")
       IN  /\ SetSelf(r.self)
           /\ fit_invoked' = TRUE
           /\ trained' = (trained \/ r.error = "none")
           /\ cycles' = [cycles EXCEPT
                           !.pc = IF r.error = "none" THEN "read" ELSE "raised",
                           !.error = r.error]
    /\ UNCHANGED <<class, last, gauss, ser, threads, frames>>

\* The reading calls of the cycle: transform_inputs and posterior at every
\* candidate frame, transform_outputs at every target frame.
RepeatRead ==
    /\ cycles.pc = "read"
    /\ cycles' =
         [cycles EXCEPT
            !.pc = "fit",
            !.n = cycles.n + 1,
            !.before = cycles.now,
            !.now =
              [transform_inputs |->
                 [df \in ParameterFrames |-> transform_inputs(Self, df).value],
               transform_outputs |->
                 [df \in TargetFrames |-> transform_outputs(Self, df).value],
               posterior |->
                 [candidates \in ParameterFrames |->
                    posterior(Self, candidates, cycles.mean).value]]]
    /\ UNCHANGED <<instance, gauss, ser, threads, frames>>

NextRepeat == RepeatFit \/ RepeatRead

SpecRepeat == InitRepeat /\ [][NextRepeat]_vars

\* --------------------------------- specification: the fitted input closure
\* A surrogate has been fitted on a search space; the stored input closure is
\* called on a dataframe whose columns are any distinct names.
InitFrames ==
    /\ Untouched
    /\ gauss = Idle
    /\ ser = Idle
    /\ threads = Idle
    /\ cycles = Idle
    /\ \E parameters \in ParameterLists, columns \in ColumnLists,
          index \in RowIndexes :
         \E feature_names_out \in FeatureNamesOut(parameters) :
            frames = [pc |-> "fitted",
                      parameters |-> parameters,
                      feature_names_out |-> feature_names_out,
                      df |-> Frame(index, columns,
                                   [c \in ColumnSet(columns) |-> "value"]),
                      out |-> None]

CallInputClosure ==
    /\ frames.pc = "fitted"
    /\ frames' = [frames EXCEPT
                    !.pc = "returned",
                    !.out = closure_transform_inputs(frames.parameters,
                                                     frames.feature_names_out,
                                                     frames.df)]
    /\ UNCHANGED <<instance, gauss, ser, threads, cycles>>

NextFrames == CallInputClosure

SpecFrames == InitFrames /\ [][NextFrames]_vars

\* ------------------------------------------------------------------ claims
Range(f) == {f[i] : i \in DOMAIN f}

Untrained ==
    /\ input_transform = None
    /\ output_transform = None
    /\ output_scaler = None

\* C1: on a surrogate on which fit has never been invoked, transform_inputs
\* and transform_outputs raise ModelNotTrainedError for every dataframe, and
\* the three fitted fields stay None.
C1_UntrainedTransformsRaise ==
    (~fit_invoked /\ last.op \in {"transform_inputs", "transform_outputs"})
        => (last.error = "ModelNotTrainedError" /\ Untrained)

C1_Witness ==
    /\ ~fit_invoked
    /\ last.op = "transform_outputs"
    /\ last.error = "ModelNotTrainedError"

\* C2: posterior on a never fitted surrogate raises ModelNotTrainedError for
\* every candidates dataframe, and neither _posterior nor
\* untransform_posterior is invoked.
C2_UntrainedPosteriorRaises ==
    (~fit_invoked /\ last.op = "posterior")
        => /\ last.error = "ModelNotTrainedError"
           /\ "_posterior" \notin Range(last.calls)
           /\ "untransform_posterior" \notin Range(last.calls)

C2_Witness ==
    /\ ~fit_invoked
    /\ last.op = "posterior"
    /\ last.error = "ModelNotTrainedError"
    /\ last.calls = <<"transform_inputs">>

\* C3: a fit call that fails one of the two precondition checks leaves the
\* three fitted fields exactly as they were before the call and invokes
\* neither the scaler construction nor the _fit primitive.
C3_PreconditionFailureKeepsState ==
    [][(last'.op = "fit" /\ last'.error \in {"ValueError", "NotImplementedError"})
          => (fields' = fields /\ last'.calls = <<>>)]_vars

C3_Witness ==
    /\ last.op = "fit"
    /\ last.error \in {"ValueError", "NotImplementedError"}
    /\ last.trained_before
    /\ ~Untrained

\* C4: a fit call that raises, for whatever reason, leaves the three fitted
\* fields as they were before the call.
C4_FitAtomicForEveryFailure ==
    [][(last'.op = "fit" /\ last'.error # "none") => fields' = fields]_vars

\* C5: fit raises the capability-mismatch ValueError exactly when the search
\* space has more than one task and the surrogate does not support transfer
\* learning.
C5_CapabilityMismatch ==
    last.op = "fit"
        => (last.error = "ValueError"
              <=> (last.args.searchspace.n_tasks > 1
                     /\ ~class.supports_transfer_learning))

C5_Witness ==
    /\ last.op = "fit"
    /\ last.error = "ValueError"
    /\ last.args.searchspace.n_tasks = 2
    /\ ~class.supports_transfer_learning

\* C6 as claimed: a surrogate that is no Gaussian process fitted on a search
\* space with a non-empty continuous part gets NotImplementedError, whatever
\* else holds of the two.
C6_NonGPContinuousAlwaysNotImplemented ==
    (last.op = "fit"
       /\ ~class.isGaussianProcess
       /\ ~last.args.searchspace.continuous_is_empty)
        => last.error = "NotImplementedError"

\* C6 as amended: such a fit call raises NotImplementedError when the
\* capability check passes (n_tasks <= 1 or transfer learning supported) and
\* the capability-mismatch ValueError, raised first, otherwise.
C6_NonGPContinuousRaises ==
    (last.op = "fit"
       /\ ~class.isGaussianProcess
       /\ ~last.args.searchspace.continuous_is_empty)
        => last.error =
             IF last.args.searchspace.n_tasks > 1
                  /\ ~class.supports_transfer_learning
             THEN "ValueError"
             ELSE "NotImplementedError"

C6_Witness ==
    /\ last.op = "fit"
    /\ last.error = "NotImplementedError"
    /\ ~class.isGaussianProcess
    /\ class.supports_transfer_learning
    /\ last.args.searchspace.n_tasks = 2
    /\ ~last.args.searchspace.continuous_is_empty

\* C7: once a fit call has returned normally the three fitted fields are
\* never None again, whatever calls follow (failing fits included), and
\* transform_inputs, transform_outputs and posterior do not raise
\* ModelNotTrainedError.
C7_FittedForever ==
    trained
        => /\ input_transform # None
           /\ output_transform # None
           /\ output_scaler # None
           /\ (last.op \in {"transform_inputs", "transform_outputs", "posterior"}
                 => last.error # "ModelNotTrainedError")

C7_Witness ==
    /\ trained
    /\ last.op = "fit"
    /\ last.trained_before
    /\ last.error = "Exception"

\* C8: after a fit call returns normally (on a fitted instance as on a fresh
\* one) the stored input transform, output transform and output scaler are
\* the ones built from that call's search space, objective and measurements,
\* and the transform methods apply the stored closures.
C8_RefitOverwrites ==
    /\ (last.op = "fit" /\ last.error = "none")
         => LET a == last.args
                scaler == _make_output_scaler(class, a.objective, a.measurements)
            IN  /\ input_transform =
                     MakeInputTransform(a.searchspace,
                                        _make_input_scaler(a.searchspace))
                /\ output_transform = MakeOutputTransform(a.objective, scaler)
                /\ output_scaler = scaler
    /\ (last.op = "transform_inputs" /\ last.error = "none")
         => last.value = ApplyInputTransform(input_transform, last.args.df)
    /\ (last.op = "transform_outputs" /\ last.error = "none")
         => last.value = ApplyOutputTransform(output_transform, last.args.df)

C8_Witness ==
    /\ last.op = "fit"
    /\ last.error = "none"
    /\ last.trained_before
    /\ output_scaler # IDENTITY_TRANSFORM
    /\ output_scaler.n = 2
    /\ output_transform.objective = "MIN"

\* C9: on an instance with stored transforms, posterior applies the stored
\* input transform, then _posterior, and then untransform_posterior of the
\* stored output scaler exactly when that scaler is not the identity
\* sentinel; with the sentinel the primitive's posterior is returned as is.
C9_PosteriorDescales ==
    (last.op = "posterior" /\ input_transform # None)
        => LET x == ApplyInputTransform(input_transform, last.args.candidates)
               p == PrimitivePosterior(x, last.args.mean)
           IN  /\ last.error = "none"
               /\ IF output_scaler # IDENTITY_TRANSFORM
                  THEN /\ last.value = untransform_posterior(output_scaler, p)
                       /\ last.value.untransformed_by.kind = "Standardize"
                       /\ last.calls = <<"transform_inputs", "_posterior",
                                         "untransform_posterior">>
                  ELSE /\ last.value = p
                       /\ last.calls = <<"transform_inputs", "_posterior">>

C9_Witness ==
    /\ last.op = "posterior"
    /\ trained
    /\ last.error = "none"
    /\ last.value.untransformed_by = output_scaler
    /\ output_scaler.kind = "Standardize"

\* C10: a fit that returns normally on a class without target scaler stores
\* the identity sentinel; _output_scaler is None only while no fit has stored
\* anything; and with the sentinel transform_outputs returns
\* objective.transform(df) unscaled.
C10_SentinelNotNone ==
    /\ (last.op = "fit" /\ last.error = "none" /\ ~_make_target_scaler(class))
         => output_scaler = IDENTITY_TRANSFORM
    /\ output_scaler = None => (~trained /\ Untrained)
    /\ (last.op = "transform_outputs" /\ output_scaler = IDENTITY_TRANSFORM)
         => LET dft == objective_transform(output_transform.objective,
                                           last.args.df)
            IN  /\ last.error = "none"
                /\ last.value.values = [i \in DOMAIN dft |-> Ratio(dft[i], 1)]

C10_Witness ==
    /\ last.op = "transform_outputs"
    /\ trained
    /\ output_scaler = IDENTITY_TRANSFORM
    /\ output_transform.objective = "MIN"
    /\ last.value.values = <<Ratio(-1, 1), Ratio(0, 1)>>

\* C11: with joint_posterior = False the covariance of the posterior built
\* by GaussianSurrogate._posterior is the diagonal matrix of the marginal
\* variances (entry (i, i) the i-th variance, every other entry zero); with
\* joint_posterior = True it is the covariance _estimate_moments returned.
C11_DiagonalCovariance ==
    gauss.pc = "returned"
        => LET cov == gauss.posterior.covariance_matrix
               var == gauss.moments.var
           IN  /\ gauss.posterior.mean = gauss.moments.mean
               /\ cov.dims = 2
               /\ cov.n = var.n
               /\ IF gauss.joint_posterior
                  THEN cov.at = var.at
                  ELSE \A i, j \in 1..var.n :
                         cov.at[<<i, j>>] = IF i = j THEN var.at[i] ELSE 0

C11_Witness ==
    /\ gauss.pc = "returned"
    /\ ~gauss.joint_posterior
    /\ gauss.moments.var.at = <<1, 1>>
    /\ gauss.posterior.covariance_matrix.at[<<1, 2>>] = 0
    /\ gauss.posterior.covariance_matrix.at[<<2, 2>>] = 1

\* C12: the stored input transform depends on the search space of the fit
\* call only - it is the closure over the scaler fitted on the search space's
\* comp-rep bounds whatever the objective and the measurements were - so
\* transform_inputs gives the same result after any two fits on the same
\* search space; the output scaler is the one fitted on the transformed
\* targets of the call's own measurements.
C12_InputScalerDataIndependent ==
    /\ (last.op = "fit" /\ last.error = "none")
         => /\ input_transform.searchspace = last.args.searchspace
            /\ input_transform.input_scaler =
                 MinMaxScaler(comp_rep_bounds(last.args.searchspace))
            /\ _make_target_scaler(class)
                 => output_scaler =
                      Standardize(objective_transform(last.args.objective,
                                                      last.args.measurements))
    /\ input_transform # None
         => input_transform.input_scaler =
              MinMaxScaler(comp_rep_bounds(input_transform.searchspace))
    /\ (last.op = "transform_inputs" /\ last.error = "none")
         => last.value =
              ApplyInputTransform(
                  MakeInputTransform(
                      input_transform.searchspace,
                      MinMaxScaler(comp_rep_bounds(input_transform.searchspace))),
                  last.args.df)

C12_Witness ==
    /\ last.op = "fit"
    /\ last.error = "none"
    /\ last.trained_before
    /\ last.args.measurements = <<0, 1>>
    /\ output_scaler = Standardize(<<0, -1>>)
    /\ input_transform.input_scaler = MinMaxScaler([lo |-> MinLo, hi |-> MaxHi])

\* C13: transform_inputs maps the value x of the parameter with bounds
\* [lo, hi] to (x - lo) / (hi - lo), which lies in [0, 1] whenever x lies
\* within the bounds.
C13_MinMaxToUnitInterval ==
    (last.op = "transform_inputs" /\ last.error = "none")
        => LET b == comp_rep_bounds(input_transform.searchspace)
               x == last.args.df
               v == last.value.values[1]
           IN  /\ v.den > 0
               /\ v.num * (b.hi - b.lo) = (x - b.lo) * v.den
               /\ (b.lo <= x /\ x <= b.hi) => (0 <= v.num /\ v.num <= v.den)

\* One above the lower bound is mapped to 1 / (hi - lo): 2 in [1, 3] to 1/2.
C13_Witness ==
    /\ last.op = "transform_inputs"
    /\ last.error = "none"
    /\ last.args.df = MinLo + 1
    /\ last.value.values = <<Ratio(1, MaxHi - MinLo)>>

C15_CustomArchitectureBlocked ==
    ser.pc \in {"unstructured", "structured"}
        => LET r == ser.unstructured
           IN  IF ser.obj.class_name = "CustomArchitectureSurrogate"
               THEN /\ r.error = "NotImplementedError"
                    /\ r.value = None
                    /\ r.calls = <<"block">>
               ELSE /\ r.error = "none"
                    /\ r.calls[1] = "block"
                    /\ r.calls[2] = "unstructure_base"
                    /\ r.value.type.data = ser.obj.class_name
                    /\ DOMAIN r.value = DOMAIN unstructure_base(ser.obj, {"_model"})

C15_Witness ==
    /\ ser.pc = "unstructured"
    /\ ser.obj.class_name = "CustomArchitectureSurrogate"
    /\ ser.obj.model = LiveModel
    /\ ser.unstructured.error = "NotImplementedError"

\* C16: for every byte string b, unstructuring an instance with onnx_str = b
\* gives a text of one character per byte, and structuring that dict gives an
\* instance whose onnx_str is the byte string b again.
C16_OnnxStrRoundTrip ==
    /\ (ser.pc \in {"unstructured", "structured"} /\ "onnx_str" \in DOMAIN ser.obj)
         => /\ ser.unstructured.error = "none"
            /\ ser.unstructured.value.onnx_str.type = "str"
            /\ Len(ser.unstructured.value.onnx_str.data)
                 = Len(ser.obj.onnx_str.data)
    /\ (ser.pc = "structured" /\ "onnx_str" \in DOMAIN ser.obj)
         => /\ ser.structured.error = "none"
            /\ ser.structured.value.onnx_str = ser.obj.onnx_str

\* C17: the dict the registered unstructure hook returns never has the key
\* _model, whether the instance holds a live model or none.
C17_ModelOmitted ==
    (ser.pc \in {"unstructured", "structured"} /\ ser.unstructured.error = "none")
        => /\ "_model" \notin DOMAIN ser.unstructured.value
           /\ \A key \in DOMAIN ser.unstructured.value :
                ser.unstructured.value[key] # LiveModel

C17_Witness ==
    /\ ser.pc = "unstructured"
    /\ ser.obj.model = LiveModel
    /\ ser.unstructured.error = "none"
    /\ "onnx_str" \in DOMAIN ser.unstructured.value

\* What a reading call returns when it runs alone on the instance.
Alone(self, call) ==
    IF call.op = "posterior"
    THEN posterior(self, call.candidates, call.mean)
    ELSE IF call.op = "transform_inputs"
    THEN transform_inputs(self, call.candidates)
    ELSE transform_outputs(self, call.targets)

NoFitCaller == \A u \in ConcThreads : threads[u].op # "fit"

C18_ReadStepsWriteNothing ==
    \A t \in ConcThreads :
        (threads'[t] # threads[t] /\ threads'[t].op \in ReadOps)
            => fields' = fields

C18_SameResultAsAlone ==
    \A t \in ConcThreads :
        (/\ ~Untrained
         /\ NoFitCaller
         /\ threads[t].op \in ReadOps
         /\ threads[t].pc = "done")
            => /\ threads[t].error = Alone(Self, threads[t].args).error
               /\ threads[t].value = Alone(Self, threads[t].args).value

\* C18: on a fitted surrogate, no step of posterior, transform_inputs or
\* transform_outputs writes one of the three fitted fields, and when no
\* caller is fitting the instance, every interleaving of the reading calls
\* gives each call the result it has when it runs alone.
C18_ReadOnlyCalls ==
    /\ [][C18_ReadStepsWriteNothing]_vars
    /\ []C18_SameResultAsAlone

\* Two posterior calls and a transform_outputs call have all finished on a
\* fitted instance with a Standardize scaler that nobody refits.
C18_Witness ==
    /\ NoFitCaller
    /\ output_scaler \notin {None, IDENTITY_TRANSFORM}
    /\ \A t \in ConcThreads : threads[t].pc = "done"
    /\ \E t, u \in ConcThreads :
         /\ t # u
         /\ threads[t].op = "posterior"
         /\ threads[u].op = "posterior"
         /\ threads[t].error = "none"
         /\ threads[t].value.untransformed_by = output_scaler
    /\ \E t \in ConcThreads : threads[t].op = "transform_outputs"

\* The stored fields are those one fit call of the interleaved runs built.
FromOneFit ==
    \E a \in ConcFitArgs : Self = fit_built(class, Self, a)

\* C19: the three fitted fields are written by separate assignments: while
\* one caller alone is fitting, the instance passes through a state with the
\* new input transform beside the previous output transform and output
\* scaler, then one with the new transforms beside the previous output
\* scaler, before it holds what this fit built; and a posterior call that
\* ends in the AttributeError of a missing output scaler had got the input
\* transform it asked for.
C19_FieldsStoredOneByOne ==
    /\ \A t \in ConcThreads :
         (/\ threads[t].op = "fit"
          /\ threads[t].pc \in {"store_output", "store_scaler", "train"}
          /\ \A u \in ConcThreads \ {t} : threads[u].op # "fit")
            => LET built  == threads[t].loc.built
                   before == threads[t].loc.before
               IN  /\ threads[t].pc = "store_output"
                        => Self = [before EXCEPT
                                     !.input_transform = built.input_transform]
                   /\ threads[t].pc = "store_scaler"
                        => Self = [built EXCEPT
                                     !.output_scaler = before.output_scaler]
                   /\ threads[t].pc = "train" => Self = built
    /\ \A t \in ConcThreads :
         (threads[t].op = "posterior" /\ threads[t].error = "AttributeError")
            => /\ threads[t].loc # None
               /\ input_transform # None

\* A posterior call has run into a first fit between its assignments and
\* found the input transform set and the output scaler still None, and two
\* interleaved fit calls have left transforms and scaler that no single fit
\* call built.
C19_Witness ==
    /\ class.has_target_scaler
    /\ \E t \in ConcThreads :
         /\ threads[t].op = "posterior"
         /\ threads[t].pc = "done"
         /\ threads[t].error = "AttributeError"
    /\ \E t, u \in ConcThreads :
         /\ t # u
         /\ threads[t].op = "fit"
         /\ threads[u].op = "fit"
         /\ threads[t].loc.before = [input_transform |-> None,
                                     output_transform |-> None,
                                     output_scaler |-> None]
    /\ input_transform # None
    /\ output_transform # None
    /\ output_scaler # None
    /\ ~FromOneFit

\* C20: from the second cycle on, a fit+posterior cycle with the same search
\* space, objective and measurements gives the same transform_inputs,
\* transform_outputs and posterior results as the cycle before, and the
\* fitted fields are those a fresh instance gets from the same fit: nothing
\* of the earlier output scaler is left.
C20_RepeatedFitReproducible ==
    (cycles.pc = "fit" /\ cycles.n >= 1)
        => /\ Self = fit_built(class, [input_transform |-> None,
                                       output_transform |-> None,
                                       output_scaler |-> None], cycles.args)
           /\ cycles.n >= 2 => cycles.now = cycles.before

\* The last cycle has been completed on measurements of two different values
\* with a Standardize scaler, after an earlier fit on other data.
C20_Witness ==
    /\ cycles.pc = "fit"
    /\ cycles.n = MaxCycles
    /\ output_scaler \notin {None, IDENTITY_TRANSFORM}
    /\ output_scaler.stdvs_sq # Ratio(1, 1)
    /\ cycles.earlier # <<>>
    /\ cycles.earlier[1].measurements # cycles.args.measurements
    /\ cycles.earlier[1].objective # cycles.args.objective
    /\ cycles.now.posterior[MinLo + 1].untransformed_by = output_scaler

\* C21: the fitted input transform returns exactly the computational columns
\* of the parameters present in the dataframe that the input scaler produced,
\* under the dataframe's row index and with no NaN cell; columns of absent
\* parameters and unknown columns are not in the result, and a dataframe with
\* no parameter column gives a result with zero columns.
C21_InputTransformColumns ==
    frames.pc = "returned"
        => LET parameters == frames.parameters
               present ==
                   {i \in DOMAIN parameters :
                       parameters[i].name \in ColumnSet(frames.df.columns)}
               expected ==
                   {c \in frames.feature_names_out :
                       \E i \in present :
                           c \in ColumnSet(parameters[i].comp_rep_columns)}
           IN  /\ frames.out.columns = expected
               /\ frames.out.index = frames.df.index
               /\ \A c \in frames.out.columns : frames.out.cells[c] = "scaled"
               /\ "u" \notin frames.out.columns
               /\ present = {} => frames.out.columns = {}

\* The closure has returned for a two-row dataframe that has the unknown
\* column and the numerical parameter but not the categorical one, on a
\* scaler that produced all columns of the space.
C21_Witness ==
    /\ frames.pc = "returned"
    /\ Len(frames.parameters) = 2
    /\ frames.feature_names_out = CompRepColumns(frames.parameters)
    /\ ColumnSet(frames.df.columns) = {"u", "p1"}
    /\ Len(frames.df.index) = 2
    /\ frames.out.columns = {"p1"}

\* The order of the steps of one fit call behind the checks.
FitOrder ==
    FitMade \o FitStored \o
    <<"transform_inputs", "transform_outputs", "_get_model_context", "_fit">>

\* C22: a fit call runs its steps in the fixed order scalers, the three
\* stores, transform of the measurements, _get_model_context, _fit: what it
\* ran is always an initial part of that order, nothing ran when a check
\* raised, _fit ran at most once and last, an exception behind the checks
\* reaches the caller as raised, and a fit that returns has handed _fit the
\* measurements through the newly stored output transform and the context
\* None.
C22_FitStepOrder ==
    last.op = "fit"
        => /\ Len(last.calls) <= Len(FitOrder)
           /\ last.calls = SubSeq(FitOrder, 1, Len(last.calls))
           /\ last.error \in {"ValueError", "NotImplementedError"}
                => last.calls = <<>>
           /\ last.error = "none" => last.calls = FitOrder
           /\ (last.error \notin {"none", "ValueError", "NotImplementedError"})
                => /\ last.error = "Exception"
                   /\ Len(last.calls) >= Len(FitMade)
           /\ last.error = "none"
                => LET args == fit_primitive_args(Self, last.args.searchspace,
                                                  last.args.objective,
                                                  last.args.measurements)
                   IN  /\ args.context = None
                       /\ args.train_y =
                            transform_outputs(Self, last.args.measurements).value
                       /\ output_transform.objective = last.args.objective

\* A fit call has raised out of the subclass primitive, which was invoked
\* once, after everything else.
C22_Witness ==
    /\ last.op = "fit"
    /\ last.error = "Exception"
    /\ last.calls = FitOrder

\* C23: under sequential calls the three fitted fields are None together or
\* set together, and posterior never asks a None output scaler to descale:
\* it never ends in AttributeError.
C23_FieldsSetTogether ==
    /\ (input_transform = None) <=> (output_transform = None)
    /\ (output_transform = None) <=> (output_scaler = None)
    /\ last.op = "posterior" => last.error # "AttributeError"

\* posterior has returned a descaled posterior on an instance whose fields
\* were set by a fit call, after fit had been invoked before.
C23_Witness ==
    /\ last.op = "posterior"
    /\ last.error = "none"
    /\ last.trained_before
    /\ input_transform # None
    /\ output_transform # None
    /\ output_scaler \notin {None, IDENTITY_TRANSFORM}
    /\ last.value.untransformed_by = output_scaler

====
